---- MODULE Spec2Model ----
(***************************************************************************)
(* Model of src/main.py: the daily collector that reads identifiers from a *)
(* spreadsheet, fetches per-day metrics for each one from the remote API   *)
(* (with tenacity retries), and appends rows to the data sheet in batches. *)
(*                                                                         *)
(* Representation of Python values                                         *)
(*   str            a sequence of one-character strings, "" is << >>       *)
(*   date string    "%Y-%m-%d" text as the triple <<year, month, day>>     *)
(*   datetime       the ordinal day number (days since 2022-12-31), for    *)
(*                  days from 2023-01-01 on                                *)
(*   JSON value     a cell [kind, n]: Num(n), Empty (the str ""), NoKey    *)
(*                  (the key is not in the dict)                           *)
(*   list           a sequence                                             *)
(***************************************************************************)
EXTENDS Integers, Sequences, FiniteSets, TLC

VARIABLES
    pc,             \* position of the program (see the actions)
    env_ok,         \* all([SHEET_URL, API_KEY]) at startup
    clock,          \* wall clock: [day |-> ordinal, after8 |-> past 08:00]
    next_run,       \* ordinal day of the scheduled job's next 08:00, 0 = no job yet
    runs,           \* number of daily_collect calls started so far
    ended,          \* end state of every finished run, in order
    runState,       \* state of the current run (spec 4.5)
    date_str,       \* daily_collect / process_skus: date_str
    raw_skus,       \* validate_skus: sku_list, the raw list it is called on
    skus,           \* daily_collect: skus
    processed,      \* process_skus: processed
    request_count,  \* process_skus: request_count
    batch_data,     \* process_skus: batch_data
    attempt,        \* tenacity: attempt_number of the running fetch_item_data call
    replies,        \* what the remote answered to each request of that call
    sleeps,         \* the sleeps taken inside that call, in order
    item_data,      \* outcome of that call: returned value or raised error
    fetched,        \* this run: identifiers handed to fetch_item_data, in order
    results,        \* this run: outcome of each finished fetch_item_data call
    produced,       \* this run: rows built by prepare_row_data, in order
    calls,          \* this run: worksheet.append_rows calls: [rows, ok, phase]
    paces,          \* this run: the pacing sleeps of lines 166-171, in order
    sheet           \* the data worksheet: the rows appended to it, when followed

vars == <<pc, env_ok, clock, next_run, runs, ended, runState, date_str, raw_skus,
          skus, processed, request_count, batch_data, attempt, replies, sleeps,
          item_data, fetched, results, produced, calls, paces, sheet>>

--------------------------------------------------------------------------
(* Program constants.  BATCH_INSERT_SIZE and MAX_REQUESTS_PER_MINUTE are   *)
(* scaled down from 20 and 100 so that full batches and the quota pause    *)
(* happen within short identifier lists.                                   *)

REQUEST_DELAY == 3
MAX_RETRIES == 3
MAX_REQUESTS_PER_MINUTE == 2
BATCH_INSERT_SIZE == 2
COOLDOWN == 60
DEFAULT_RETRY_AFTER == 60
WAIT_MULTIPLIER == 1
WAIT_MIN == 2
WAIT_MAX == 10

(* Bounds of the model. *)
MaxRaw == 3         \* entries of the identifier column below the header
MaxStr == 2         \* characters of an enumerated raw string
MaxList == 2        \* entries of an enumerated raw list (validator inputs)
MaxBody == 2        \* records of a response body (fetcher inputs)
MaxRuns == 2        \* daily_collect calls in one behaviour
MaxDays == 1        \* days the clock may advance
MaxSame == 5        \* entries of the identifier column of the repeated runs

--------------------------------------------------------------------------
(* Python str: strip, isdigit, int                                         *)

DecimalDigits == {"0", "1", "2", "3", "4", "5", "6", "7", "8", "9"}

\* Characters c for which c.isdigit() is True: the decimal digits and the
\* characters of Numeric_Type=Digit such as U+00B2, written "sup2" here.
PyDigitChars == DecimalDigits \cup {"sup2"}

WhitespaceChars == {" "}

RECURSIVE lstrip(_)
lstrip(s) ==
    IF s # << >> /\ Head(s) \in WhitespaceChars THEN lstrip(Tail(s)) ELSE s

RECURSIVE rstrip(_)
rstrip(s) ==
    IF s # << >> /\ s[Len(s)] \in WhitespaceChars
    THEN rstrip(SubSeq(s, 1, Len(s) - 1))
    ELSE s

strip(s) == rstrip(lstrip(s))

isdigit(s) == s # << >> /\ \A i \in 1..Len(s) : s[i] \in PyDigitChars

DigitValue(c) ==
    CASE c = "0" -> 0 [] c = "1" -> 1 [] c = "2" -> 2 [] c = "3" -> 3
      [] c = "4" -> 4 [] c = "5" -> 5 [] c = "6" -> 6 [] c = "7" -> 7
      [] c = "8" -> 8 [] c = "9" -> 9

RECURSIVE PyInt(_)
PyInt(s) ==
    IF Len(s) = 1 THEN DigitValue(s[1])
    ELSE 10 * PyInt(SubSeq(s, 1, Len(s) - 1)) + DigitValue(s[Len(s)])

--------------------------------------------------------------------------
(* validate_skus                                                           *)

RECURSIVE validate_skus(_)
validate_skus(sku_list) ==
    IF sku_list = << >> THEN << >>
    ELSE IF isdigit(strip(Head(sku_list)))
         THEN <<strip(Head(sku_list))>> \o validate_skus(Tail(sku_list))
         ELSE validate_skus(Tail(sku_list))

--------------------------------------------------------------------------
(* datetime: strptime, timedelta(days=1), strftime over "%Y-%m-%d"         *)

IsLeap(y) == (y % 4 = 0 /\ y % 100 # 0) \/ y % 400 = 0

YearLen(y) == IF IsLeap(y) THEN 366 ELSE 365

DaysInMonth(y, m) ==
    IF m = 2 THEN (IF IsLeap(y) THEN 29 ELSE 28)
    ELSE IF m \in {4, 6, 9, 11} THEN 30 ELSE 31

RECURSIVE DaysBeforeYear(_)
DaysBeforeYear(y) ==
    IF y = 2023 THEN 0 ELSE DaysBeforeYear(y - 1) + YearLen(y - 1)

RECURSIVE DaysBeforeMonth(_, _)
DaysBeforeMonth(y, m) ==
    IF m = 1 THEN 0 ELSE DaysBeforeMonth(y, m - 1) + DaysInMonth(y, m - 1)

\* datetime.strptime(s, "%Y-%m-%d"): the day number of the date text.
strptime(s) == DaysBeforeYear(s[1]) + DaysBeforeMonth(s[1], s[2]) + s[3]

RECURSIVE YearOfDay(_, _)
YearOfDay(y, n) ==
    IF n <= DaysBeforeYear(y) + YearLen(y) THEN y ELSE YearOfDay(y + 1, n)

RECURSIVE MonthOfDay(_, _, _)
MonthOfDay(y, m, k) ==
    IF k <= DaysInMonth(y, m) THEN m ELSE MonthOfDay(y, m + 1, k - DaysInMonth(y, m))

\* d.strftime("%Y-%m-%d"): the date text of a day number.
strftime(n) ==
    LET y == YearOfDay(2023, n)
        k == n - DaysBeforeYear(y)
        m == MonthOfDay(y, 1, k)
    IN <<y, m, k - DaysBeforeMonth(y, m)>>

day_before_same_month(target_date) ==
    <<target_date[1], target_date[2], target_date[3] - 1>>

\* the first day of the clock
StartDay == strptime(<<2024, 3, 1>>)

\* the dates a run meets, and the day before each of them, worked out once
KnownDates == {strftime(n) : n \in (StartDay - 3)..(StartDay + MaxDays)}
PriorDay == [d \in KnownDates |-> strftime(strptime(d) - 1)]

\* (datetime.strptime(target_date, "%Y-%m-%d") - timedelta(days=1)).strftime("%Y-%m-%d")
day_before(target_date) ==
    IF target_date \in KnownDates THEN PriorDay[target_date]
    ELSE strftime(strptime(target_date) - 1)

--------------------------------------------------------------------------
(* JSON values, dicts and the values fetch_item_data hands back            *)

Num(x) == [kind |-> "num", n |-> x]
Empty == [kind |-> "str", n |-> 0]
NoKey == [kind |-> "nokey", n |-> 0]

\* dict.get(key, default), applied to the value stored under the key
Get(value, default) == IF value = NoKey THEN default ELSE value

None == [tag |-> "None", err |-> "", sales |-> NoKey, price |-> NoKey,
         final_price |-> NoKey]

Dict(s, p, f) == [tag |-> "dict", err |-> "", sales |-> s, price |-> p,
                  final_price |-> f]

Raised(e) == [tag |-> "raised", err |-> e, sales |-> NoKey, price |-> NoKey,
              final_price |-> NoKey]

\* bool(item_data): None is falsy, the three-key dict is truthy
Truthy(v) == v.tag = "dict"

--------------------------------------------------------------------------
(* fetch_item_data: the body of one attempt                                *)

\* target_sales after the scan of data[1..k]
RECURSIVE target_sales(_, _, _)
target_sales(data, k, target_date) ==
    IF k = 0 THEN Num(0)
    ELSE IF data[k].date = target_date THEN Get(data[k].sales, Num(0))
    ELSE target_sales(data, k - 1, target_date)

\* prev_sales after the scan of data[1..k]
RECURSIVE prev_sales(_, _, _)
prev_sales(data, k, target_date) ==
    IF k = 0 THEN Num(0)
    ELSE IF data[k].date # target_date /\ data[k].date = day_before(target_date)
         THEN Get(data[k].sales, Num(0))
    ELSE prev_sales(data, k - 1, target_date)

\* the loop variable entry once the for loop is over
entry_after_loop(data, target_date) == data[Len(data)]

parse_retrying_empty(data, target_date) ==
    IF data = << >> THEN Raised("MpStatsAPIError")
    ELSE LET entry == entry_after_loop(data, target_date) IN
         Dict(Num(target_sales(data, Len(data), target_date).n
                    - prev_sales(data, Len(data), target_date).n),
              Get(entry.price, Empty), Get(entry.final_price, Empty))

\* lines 80-97: data = response.json() ... return {...}
parse(data, target_date) ==
    IF data = << >> THEN None
    ELSE LET entry == entry_after_loop(data, target_date) IN
         Dict(Num(target_sales(data, Len(data), target_date).n
                    - prev_sales(data, Len(data), target_date).n),
              Get(entry.price, Empty), Get(entry.final_price, Empty))

\* What the remote can answer to one request.
Transport == [kind |-> "transport", status |-> 0, retry_after |-> << >>, body |-> << >>]
Http(code, hdr, data) == [kind |-> "http", status |-> code, retry_after |-> hdr, body |-> data]

\* int(response.headers.get('Retry-After', 60))
retry_after_of(reply) ==
    IF reply.retry_after = << >> THEN DEFAULT_RETRY_AFTER
    ELSE PyInt(reply.retry_after[1])

\* One run of the function body, lines 65-101: the value returned or the
\* error raised, and the time.sleep calls made on the way.  API_KEY is set
\* whenever the body runs (line 214 exits otherwise), so line 66 is not
\* reached.  Retry-After, when present, is a number of seconds.
fetch_body(reply, target_date) ==
    IF reply.kind = "transport"
    THEN [out |-> Raised("MpStatsAPIError"), slept |-> << >>]
    ELSE IF reply.status = 429
    THEN [out |-> Raised("MpStatsAPIError"),
          slept |-> <<[kind |-> "retry_after", secs |-> retry_after_of(reply)]>>]
    ELSE IF reply.status >= 400
    THEN [out |-> Raised("MpStatsAPIError"), slept |-> << >>]
    ELSE [out |-> parse(reply.body, target_date), slept |-> << >>]

--------------------------------------------------------------------------
(* tenacity: @retry(stop_after_attempt, wait_exponential, reraise=True)    *)

Max(a, b) == IF a >= b THEN a ELSE b
Min(a, b) == IF a <= b THEN a ELSE b

RECURSIVE Pow2(_)
Pow2(k) == IF k = 0 THEN 1 ELSE 2 * Pow2(k - 1)

wait_uncapped(attempt_number) ==
    Max(WAIT_MIN, WAIT_MULTIPLIER * Pow2(attempt_number + 3))

\* wait_exponential(multiplier=1, min=2, max=10) after attempt attempt_number:
\* max(min, min(multiplier * 2 ** (attempt_number - 1), max)), i.e. 2, 2, 4, 8, 10, ...
wait_exponential(attempt_number) ==
    Max(Max(0, WAIT_MIN), Min(WAIT_MULTIPLIER * Pow2(attempt_number - 1), WAIT_MAX))

stop_after_two(attempt_number) == attempt_number >= MAX_RETRIES - 1
stop_after_four(attempt_number) == attempt_number >= MAX_RETRIES + 1
\* stop_after_attempt(MAX_RETRIES)
stop_after_attempt(attempt_number) == attempt_number >= MAX_RETRIES

--------------------------------------------------------------------------
(* prepare_row_data, insert_batch_to_sheet                                 *)

prepare_row_data(data, date, sku) ==
    <<date, sku, Get(data.price, Empty), Get(data.final_price, Empty),
      Get(data.sales, Empty)>>

\* The data worksheet as the model sees it: the rows appended to it since
\* the start, in order, when its content is followed; Unfollowed is a
\* worksheet of unknown content, which stays unknown whatever is appended.
Followed(rows) == [followed |-> TRUE, rows |-> rows]
Unfollowed == [followed |-> FALSE, rows |-> << >>]

\* the batch without the rows whose (date, sku) the list `old` already holds
RECURSIVE NewKeys(_, _)
NewKeys(old, batch) ==
    IF batch = << >> THEN << >>
    ELSE IF \E i \in 1..Len(old) : old[i][1] = Head(batch)[1] /\ old[i][2] = Head(batch)[2]
         THEN NewKeys(old, Tail(batch))
         ELSE <<Head(batch)>> \o NewKeys(old, Tail(batch))

upsert_rows(ws, batch) ==
    IF ws.followed THEN Followed(ws.rows \o NewKeys(ws.rows, batch)) ELSE ws

\* line 127: worksheet.append_rows(batch_data) returns: the rows are added
\* below the last row of the worksheet
append_rows(ws, batch) ==
    IF ws.followed THEN Followed(ws.rows \o batch) ELSE ws

flushes_full_only(batch) == Len(batch) >= BATCH_INSERT_SIZE

\* insert_batch_to_sheet makes the append_rows call iff batch_data is non-empty
insert_calls_sink(batch) == batch # << >>

--------------------------------------------------------------------------
(* Inputs                                                                  *)

RECURSIVE SeqsUpTo(_, _)
SeqsUpTo(S, n) ==
    IF n = 0 THEN {<< >>}
    ELSE LET shorter == SeqsUpTo(S, n - 1) IN
         shorter \cup {Append(q, x) : q \in {r \in shorter : Len(r) = n - 1}, x \in S}

\* validator inputs
ValChars == {"1", "x", " ", "sup2"}
RawStrings(n) == SeqsUpTo(ValChars, n)
ExampleRaw == << <<"1", "2", "3">>, <<" ", "4", "5", " ">>, <<"a", "b", "c">>,
                 << >>, <<"6", "x", "7">> >>
RawLists(n, m) == SeqsUpTo(RawStrings(n), m) \cup {ExampleRaw}

\* the identifier column of the sheet, header first
Header == <<"s", "k", "u">>
ColumnEntries == {<<"1">>, <<" ", "2">>, <<"x">>}
Columns == {<< >>} \cup {<<Header>> \o l : l \in SeqsUpTo(ColumnEntries, MaxRaw)}

\* response bodies: per-date records, one per date
Record(d, s, p, f) == [date |-> d, sales |-> s, price |-> p, final_price |-> f]
BodyDates == {<<2024, 2, 28>>, <<2024, 2, 29>>, <<2024, 3, 1>>}
Prices == {<<NoKey, NoKey>>, <<Num(90), NoKey>>, <<Num(100), Num(95)>>}
Records == {Record(d, s, pf[1], pf[2]) : d \in BodyDates, s \in {NoKey, Num(30), Num(50)},
                                         pf \in Prices}
DistinctDates(b) == \A i, j \in 1..Len(b) : i # j => b[i].date # b[j].date
Bodies == {b \in SeqsUpTo(Records, MaxBody) : DistinctDates(b)}
FetchDates == {<<2024, 2, 29>>, <<2024, 3, 1>>}
NoDate == <<0, 0, 0>>

RetryAfterHeaders == {<< >>, << <<"1", "5">> >>}
ErrorReplies ==
    {Transport, Http(500, << >>, << >>)}
        \cup {Http(429, h, << >>) : h \in RetryAfterHeaders}
FetchReplies == ErrorReplies \cup {Http(200, << >>, b) : b \in Bodies}

\* what the remote answers during a run for target date d
RunBodies(d) ==
    UNION { { << >>,
              <<Record(d, Num(50), Num(100), Num(95)), Record(p, Num(30), Num(90), NoKey)>>,
              <<Record(day_before(p), Num(30), Num(90), Num(95))>> }
            : p \in {day_before(d)} }
RunReplies(d) ==
    {Transport, Http(429, << >>, << >>)} \cup {Http(200, << >>, b) : b \in RunBodies(d)}

--------------------------------------------------------------------------
(* State                                                                   *)

InitLocals ==
    /\ raw_skus = << >> /\ skus = << >>
    /\ processed = 0 /\ request_count = 0 /\ batch_data = << >>
    /\ attempt = 0 /\ replies = << >> /\ sleeps = << >> /\ item_data = None
    /\ fetched = << >> /\ results = << >> /\ produced = << >> /\ calls = << >>
    /\ paces = << >>

Init ==
    /\ pc = "main"
    /\ env_ok \in BOOLEAN
    /\ clock \in [day : {StartDay}, after8 : BOOLEAN]
    /\ next_run = 0 /\ runs = 0 /\ ended = << >>
    /\ runState = "Idle" /\ date_str = NoDate
    /\ InitLocals
    /\ sheet = Unfollowed

sched == <<env_ok, clock, next_run>>
fetchv == <<attempt, replies, sleeps, item_data>>
logs == <<fetched, results, produced, calls, paces>>

--------------------------------------------------------------------------
(* __main__ and daily_collect                                              *)

\* lines 214-219: exit(1) without configuration, else the first run
Main ==
    /\ pc = "main"
    /\ pc' = IF env_ok THEN "collect" ELSE "exit"
    /\ UNCHANGED <<sched, sheet, runs, ended, runState, date_str, raw_skus, skus, processed,
                   request_count, batch_data, fetchv, logs>>

\* lines 184-187 (and process_skus 136-139, the locals of the run)
BeginCollect ==
    /\ pc = "collect"
    /\ date_str' = strftime(clock.day - 1)
    /\ runs' = runs + 1
    /\ runState' = "Initializing"
    /\ raw_skus' = << >> /\ skus' = << >>
    /\ processed' = 0 /\ request_count' = 0 /\ batch_data' = << >>
    /\ attempt' = 0 /\ replies' = << >> /\ sleeps' = << >> /\ item_data' = None
    /\ fetched' = << >> /\ results' = << >> /\ produced' = << >> /\ calls' = << >>
    /\ paces' = << >>
    /\ pc' = "init"
    /\ UNCHANGED <<sched, sheet, ended>>

\* where daily_collect returns to: line 222 after the first run, line 229
\* after a scheduled one
ReturnPc == IF next_run = 0 THEN "schedule" ELSE "sleep"

\* the run is over in state st: daily_collect is about to return
RunEnds(st) ==
    /\ runState' = st
    /\ ended' = Append(ended, st)
    /\ pc' = "return"

propagates == "propagates"

\* lines 208-209: except Exception around the whole run
daily_collect_except == "caught"

\* an exception reaches the top of daily_collect's try block
RunFails ==
    IF daily_collect_except = "caught"
    THEN RunEnds("Failed")
    ELSE /\ pc' = IF next_run = 0 THEN "crashed" ELSE "loop_error"
         /\ UNCHANGED <<runState, ended>>

\* lines 189-194 raise: connect_google, open_by_url, worksheet or col_values
InitError ==
    /\ pc = "init"
    /\ RunFails
    /\ UNCHANGED <<sched, sheet, runs, date_str, raw_skus, skus, processed, request_count,
                   batch_data, fetchv, logs>>

\* col_values(1)[1:]
skip_header(col) == IF col = << >> THEN << >> ELSE Tail(col)

proceeds_when_empty(list) == FALSE

\* line 197: if not skus
no_valid_skus(list) == list = << >>

\* lines 189-204: the column, one of Cols, is read and validated
InitializeFrom(Cols) ==
    /\ pc = "init"
    /\ \E col \in Cols : skus' = validate_skus(skip_header(col))
    /\ IF no_valid_skus(skus')
       THEN RunEnds("Done")
       ELSE /\ pc' = "open" /\ runState' = "Processing" /\ UNCHANGED ended
    /\ UNCHANGED <<sched, sheet, runs, date_str, raw_skus, processed, request_count,
                   batch_data, fetchv, logs>>

Initialize == InitializeFrom(Columns)

\* daily_collect returns and its locals are gone
Return ==
    /\ pc = "return"
    /\ pc' = ReturnPc
    /\ runState' = "Idle"
    /\ skus' = << >> /\ processed' = 0 /\ request_count' = 0 /\ batch_data' = << >>
    /\ fetched' = << >> /\ results' = << >> /\ produced' = << >> /\ calls' = << >>
    /\ paces' = << >>
    /\ UNCHANGED <<sched, sheet, runs, ended, date_str, raw_skus, fetchv>>

--------------------------------------------------------------------------
(* process_skus                                                            *)

\* lines 142-143 raise: the data sheet cannot be opened
OpenDataError ==
    /\ pc = "open"
    /\ RunFails
    /\ UNCHANGED <<sched, sheet, runs, date_str, raw_skus, skus, processed, request_count,
                   batch_data, fetchv, logs>>

\* lines 142-143
OpenData ==
    /\ pc = "open"
    /\ pc' = "loop"
    /\ UNCHANGED <<sched, sheet, runs, ended, runState, date_str, raw_skus, skus, processed,
                   request_count, batch_data, fetchv, logs>>

\* lines 145-152: the next sku is taken and fetch_item_data is called
NextSku ==
    /\ pc = "loop"
    /\ processed < Len(skus)
    /\ processed' = processed + 1
    /\ request_count' = request_count + 1
    /\ fetched' = Append(fetched, skus[processed + 1])
    /\ pc' = "fetch"
    /\ UNCHANGED <<sched, sheet, runs, ended, runState, date_str, raw_skus, skus, batch_data,
                   fetchv, results, produced, calls, paces>>

\* line 145: the list is exhausted
LoopEnd ==
    /\ pc = "loop"
    /\ processed >= Len(skus)
    /\ pc' = "drain"
    /\ runState' = "Draining"
    /\ UNCHANGED <<sched, sheet, runs, ended, date_str, raw_skus, skus, processed,
                   request_count, batch_data, fetchv, logs>>

\* One attempt of fetch_item_data under @retry (lines 60-101): one remote
\* request, answered by some reply of Rs.  A raised error is retried after
\* the backoff wait until stop_after_attempt says stop, then re-raised.
FetchAttempt(Rs) ==
    /\ pc = "fetch"
    /\ \E reply \in Rs :
        LET r == fetch_body(reply, date_str)
            n == attempt + 1
        IN /\ attempt' = n
           /\ replies' = Append(replies, reply)
           /\ IF r.out.tag = "raised" /\ ~stop_after_attempt(n)
              THEN /\ sleeps' = sleeps \o r.slept
                                  \o <<[kind |-> "backoff", secs |-> wait_exponential(n)]>>
                   /\ UNCHANGED <<pc, item_data>>
              ELSE /\ sleeps' = sleeps \o r.slept
                   /\ item_data' = r.out
                   /\ pc' = "handle"
    /\ UNCHANGED <<sched, sheet, runs, ended, runState, date_str, raw_skus, skus, processed,
                   request_count, batch_data, logs>>

Fetch == FetchAttempt(RunReplies(date_str))

\* lines 166-171: the value of request_count after the pacing sleep
paced(count) == IF count >= MAX_REQUESTS_PER_MINUTE THEN 0 ELSE count

\* lines 166-171: the length of the pacing sleep
pacing_sleep(count) ==
    IF count >= MAX_REQUESTS_PER_MINUTE THEN COOLDOWN ELSE REQUEST_DELAY

\* lines 166-171
Pace ==
    /\ request_count' = paced(request_count)
    /\ paces' = Append(paces, pacing_sleep(request_count))

handle_error_aborts(n) == Len(skus)

\* lines 173-175: except Exception ... continue; processed after the handler
handle_error_continues(n) == n

\* the locals of the fetch_item_data call are gone once it is handled
FetchOver ==
    attempt' = 0 /\ replies' = << >> /\ sleeps' = << >> /\ item_data' = None

\* fetch_item_data raised: lines 173-175
HandleError ==
    /\ pc = "handle"
    /\ item_data.tag = "raised"
    /\ results' = Append(results, item_data)
    /\ processed' = handle_error_continues(processed)
    /\ pc' = "loop"
    /\ FetchOver
    /\ UNCHANGED <<sched, sheet, runs, ended, runState, date_str, raw_skus, skus,
                   request_count, batch_data, fetched, produced, calls, paces>>

\* fetch_item_data returned None: line 154 is false, lines 166-171
HandleAbsent ==
    /\ pc = "handle"
    /\ item_data.tag # "raised" /\ ~Truthy(item_data)
    /\ results' = Append(results, item_data)
    /\ Pace
    /\ pc' = "loop"
    /\ FetchOver
    /\ UNCHANGED <<sched, sheet, runs, ended, runState, date_str, raw_skus, skus, processed,
                   batch_data, fetched, produced, calls>>

flush_at_one_more(batch) == Len(batch) > BATCH_INSERT_SIZE

\* line 161
batch_full(batch) == Len(batch) >= BATCH_INSERT_SIZE

flush_failure_drops(batch) == << >>

\* lines 162-163 and 173-175: insert_batch_to_sheet raised at line 162, so
\* the assignment of line 163 is skipped; batch_data as the handler leaves it
batch_after_failed_flush(batch) == batch

\* fetch_item_data returned a dict: lines 154-171, and 173-175 when the
\* bulk write raises
HandleData ==
    /\ pc = "handle"
    /\ Truthy(item_data)
    /\ results' = Append(results, item_data)
    /\ LET row == prepare_row_data(item_data, date_str, skus[processed])
           batch == Append(batch_data, row)
       IN /\ produced' = Append(produced, row)
          /\ IF batch_full(batch) /\ insert_calls_sink(batch)
             THEN \E ok \in BOOLEAN :
                    /\ calls' = Append(calls, [rows |-> batch, ok |-> ok,
                                               phase |-> "processing"])
                    /\ IF ok
                       THEN /\ sheet' = append_rows(sheet, batch)
                            /\ batch_data' = << >>
                            /\ Pace
                       ELSE /\ batch_data' = batch_after_failed_flush(batch)
                            /\ UNCHANGED <<request_count, paces, sheet>>
             ELSE /\ batch_data' = batch
                  /\ Pace
                  /\ UNCHANGED <<calls, sheet>>
    /\ pc' = "loop"
    /\ FetchOver
    /\ UNCHANGED <<sched, runs, ended, runState, date_str, raw_skus, skus, processed,
                   fetched>>

\* lines 178-179 with a non-empty batch, then line 206 or lines 208-209
DrainFlush ==
    /\ pc = "drain"
    /\ insert_calls_sink(batch_data)
    /\ \E ok \in BOOLEAN :
        /\ calls' = Append(calls, [rows |-> batch_data, ok |-> ok, phase |-> "draining"])
        /\ sheet' = IF ok THEN append_rows(sheet, batch_data) ELSE sheet
        /\ IF ok THEN RunEnds("Done") ELSE RunFails
    /\ UNCHANGED <<sched, runs, date_str, raw_skus, skus, processed, request_count,
                   batch_data, fetchv, fetched, results, produced, paces>>

\* lines 178-179 with an empty batch, then line 206
DrainNothing ==
    /\ pc = "drain"
    /\ ~insert_calls_sink(batch_data)
    /\ RunEnds("Done")
    /\ UNCHANGED <<sched, sheet, runs, date_str, raw_skus, skus, processed, request_count,
                   batch_data, fetchv, logs>>

--------------------------------------------------------------------------
(* __main__: the schedule                                                  *)

\* line 222: schedule.every().day.at("08:00") picks the next 08:00
Schedule ==
    /\ pc = "schedule"
    /\ next_run' = IF clock.after8 THEN clock.day + 1 ELSE clock.day
    /\ pc' = "pending"
    /\ UNCHANGED <<sheet, env_ok, clock, runs, ended, runState, date_str, raw_skus, skus,
                   processed, request_count, batch_data, fetchv, logs>>

Due == clock.day > next_run \/ (clock.day = next_run /\ clock.after8)

\* line 228: the job is due, run_pending calls daily_collect
RunPendingDue ==
    /\ pc = "pending"
    /\ Due
    /\ runs < MaxRuns
    /\ next_run' = clock.day + 1
    /\ pc' = "collect"
    /\ UNCHANGED <<sheet, env_ok, clock, runs, ended, runState, date_str, raw_skus, skus,
                   processed, request_count, batch_data, fetchv, logs>>

\* line 228: nothing is due
RunPendingIdle ==
    /\ pc = "pending"
    /\ ~Due
    /\ pc' = "sleep"
    /\ UNCHANGED <<sched, sheet, runs, ended, runState, date_str, raw_skus, skus, processed,
                   request_count, batch_data, fetchv, logs>>

Tick(c) == IF c.after8 THEN [day |-> c.day + 1, after8 |-> FALSE]
           ELSE [day |-> c.day, after8 |-> TRUE]

\* line 229: time.sleep(60); the clock may pass 08:00 or midnight meanwhile
Sleep ==
    /\ pc = "sleep"
    /\ \/ clock' = clock
       \/ /\ Tick(clock).day <= StartDay + MaxDays
          /\ clock' = Tick(clock)
    /\ pc' = "pending"
    /\ UNCHANGED <<sheet, env_ok, next_run, runs, ended, runState, date_str, raw_skus, skus,
                   processed, request_count, batch_data, fetchv, logs>>

Next ==
    \/ Main \/ BeginCollect \/ InitError \/ Initialize \/ Return
    \/ OpenDataError \/ OpenData \/ NextSku \/ LoopEnd \/ Fetch
    \/ HandleError \/ HandleAbsent \/ HandleData \/ DrainFlush \/ DrainNothing
    \/ Schedule \/ RunPendingDue \/ RunPendingIdle \/ Sleep

Spec == Init /\ [][Next]_vars

--------------------------------------------------------------------------
(* __main__ under process-level interrupts and scheduler errors            *)

\* line 228 raises an Exception that is not daily_collect's (which catches
\* its own, lines 208-209): lines 233-234
LoopError ==
    /\ pc = "pending"
    /\ pc' = "error_sleep"
    /\ UNCHANGED <<sched, sheet, runs, ended, runState, date_str, raw_skus, skus, processed,
                   request_count, batch_data, fetchv, logs>>

\* line 235: time.sleep(60) of the handler, then the loop goes round
ErrorSleep ==
    /\ pc = "error_sleep"
    /\ \/ clock' = clock
       \/ /\ Tick(clock).day <= StartDay + MaxDays
          /\ clock' = Tick(clock)
    /\ pc' = "pending"
    /\ UNCHANGED <<sheet, env_ok, next_run, runs, ended, runState, date_str, raw_skus, skus,
                   processed, request_count, batch_data, fetchv, logs>>

\* the positions inside daily_collect and what it calls
InDailyCollect == {"collect", "init", "open", "loop", "fetch", "handle", "drain", "return"}

\* the positions a KeyboardInterrupt can arrive at once line 214 has passed
Interruptible == InDailyCollect \cup {"schedule", "pending", "sleep", "error_sleep"}

\* lines 227-232: is the position inside the try of line 227?  Lines 228-229
\* are, with the daily_collect that run_pending calls; the first run of line
\* 219, lines 222-223 and the handler of lines 233-235 are not.  Nothing
\* below catches it: lines 99, 129, 173 and 208 and the retry of line 60 catch
\* Exception or narrower, and KeyboardInterrupt is a BaseException.
in_loop_try(at) ==
    \/ at \in {"pending", "sleep"}
    \/ at \in InDailyCollect /\ next_run # 0

\* a KeyboardInterrupt is raised where the program stands: caught at lines
\* 230-232 (break) or not at all; either way the process ends
Interrupt ==
    /\ pc \in Interruptible
    /\ pc' = IF in_loop_try(pc) THEN "stopped" ELSE "interrupted"
    /\ skus' = << >> /\ processed' = 0 /\ request_count' = 0 /\ batch_data' = << >>
    /\ FetchOver
    /\ fetched' = << >> /\ results' = << >> /\ produced' = << >> /\ calls' = << >>
    /\ paces' = << >>
    /\ UNCHANGED <<sched, sheet, runs, ended, runState, date_str, raw_skus>>

NextInterrupt == Next \/ LoopError \/ ErrorSleep \/ Interrupt

SpecInterrupt == Init /\ [][NextInterrupt]_vars

--------------------------------------------------------------------------
(* Runs repeated over one identifier column and one set of remote data,   *)
(* on a data worksheet that starts empty and whose rows are followed       *)

\* the identifier column of these runs, below the header
SameEntry(i) ==
    CASE i = 1 -> <<"1">>
      [] i = 2 -> <<"x">>
      [] i = 3 -> <<" ", "2">>
      [] i = 4 -> <<"3">>
      [] i = 5 -> <<"4">>
      [] OTHER -> << >>

SameColumn == <<Header>> \o [i \in 1..MaxSame |-> SameEntry(i)]

\* the body the remote sends for an identifier and a target date, every time
SameData(sku, d) ==
    CASE sku = <<"1">> -> <<Record(d, Num(50), Num(100), Num(95)),
                            Record(day_before(d), Num(30), Num(90), NoKey)>>
      [] sku = <<"2">> -> <<Record(day_before(d), Num(30), Num(90), Num(95))>>
      [] sku = <<"4">> -> <<Record(d, Num(30), Num(90), NoKey)>>
      [] OTHER -> << >>

InitRerun ==
    /\ pc = "main"
    /\ env_ok = TRUE
    /\ clock \in [day : {StartDay}, after8 : BOOLEAN]
    /\ next_run = 0 /\ runs = 0 /\ ended = << >>
    /\ runState = "Idle" /\ date_str = NoDate
    /\ InitLocals
    /\ sheet = Followed(<< >>)

InitializeSame == InitializeFrom({SameColumn})

FetchSame == FetchAttempt({Http(200, << >>, SameData(skus[processed], date_str))})

NextRerun ==
    \/ Main \/ BeginCollect \/ InitError \/ InitializeSame \/ Return
    \/ OpenDataError \/ OpenData \/ NextSku \/ LoopEnd \/ FetchSame
    \/ HandleAbsent \/ HandleData \/ DrainFlush \/ DrainNothing
    \/ Schedule \/ RunPendingDue \/ RunPendingIdle \/ Sleep

SpecRerun == InitRerun /\ [][NextRerun]_vars

--------------------------------------------------------------------------
(* One run of daily_collect, every call it makes returning or raising      *)

InitRun ==
    /\ pc = "collect"
    /\ env_ok = TRUE
    /\ clock = [day |-> StartDay, after8 |-> FALSE]
    /\ next_run = 0 /\ runs = 0 /\ ended = << >>
    /\ runState = "Idle" /\ date_str = NoDate
    /\ InitLocals
    /\ sheet = Unfollowed

RunStep ==
    \/ BeginCollect \/ InitError \/ Initialize \/ Return
    \/ OpenDataError \/ OpenData \/ NextSku \/ LoopEnd \/ Fetch
    \/ HandleError \/ HandleAbsent \/ HandleData \/ DrainFlush \/ DrainNothing

\* The program is sequential and every sleep is finite, so as long as each
\* call to the remote and to the sheets returns or raises, the next step of
\* the run is taken.
SpecRunFair == InitRun /\ [][RunStep]_vars /\ WF_vars(RunStep)

--------------------------------------------------------------------------
(* One call of fetch_item_data against every remote behaviour              *)

InitFetch ==
    /\ pc = "fetch"
    /\ env_ok = TRUE
    /\ clock = [day |-> StartDay, after8 |-> FALSE]
    /\ next_run = 0 /\ runs = 1 /\ ended = << >>
    /\ runState = "Processing"
    /\ date_str \in FetchDates
    /\ raw_skus = << <<"1">> >> /\ skus = << <<"1">> >>
    /\ processed = 1 /\ request_count = 1 /\ batch_data = << >>
    /\ attempt = 0 /\ replies = << >> /\ sleeps = << >> /\ item_data = None
    /\ fetched = << <<"1">> >> /\ results = << >> /\ produced = << >> /\ calls = << >>
    /\ paces = << >>
    /\ sheet = Unfollowed

FetchAny == FetchAttempt(FetchReplies)

SpecFetch == InitFetch /\ [][FetchAny]_vars

--------------------------------------------------------------------------
(* validate_skus on every raw list                                         *)

InitValidate ==
    /\ pc = "validate"
    /\ env_ok = TRUE
    /\ clock = [day |-> StartDay, after8 |-> FALSE]
    /\ next_run = 0 /\ runs = 0 /\ ended = << >>
    /\ runState = "Initializing" /\ date_str = NoDate
    /\ raw_skus \in RawLists(MaxStr, MaxList) /\ skus = << >>
    /\ processed = 0 /\ request_count = 0 /\ batch_data = << >>
    /\ attempt = 0 /\ replies = << >> /\ sleeps = << >> /\ item_data = None
    /\ fetched = << >> /\ results = << >> /\ produced = << >> /\ calls = << >>
    /\ paces = << >>
    /\ sheet = Unfollowed

\* line 195
Validate ==
    /\ pc = "validate"
    /\ skus' = validate_skus(raw_skus)
    /\ pc' = "validated"
    /\ UNCHANGED <<sched, sheet, runs, ended, runState, date_str, raw_skus, processed,
                   request_count, batch_data, fetchv, logs>>

SpecValidate == InitValidate /\ [][Validate]_vars

--------------------------------------------------------------------------
(* Properties                                                              *)

RunOver == pc = "return"

IsDict(v) == v.tag = "dict"
IsRaised(v) == v.tag = "raised"

\* the rows due for the identifiers 1..k whose fetch returned data
RECURSIVE RowsDue(_)
RowsDue(k) ==
    IF k = 0 THEN << >>
    ELSE IF IsDict(results[k])
         THEN Append(RowsDue(k - 1),
                     <<date_str, skus[k], results[k].price, results[k].final_price,
                       results[k].sales>>)
         ELSE RowsDue(k - 1)

LastCall == calls[Len(calls)]
DrainFailed == calls # << >> /\ LastCall.phase = "draining" /\ ~LastCall.ok

\* C1: a run that got to the identifier loop and in which one or more
\* fetches raised still hands every identifier to the fetcher in source
\* order, builds a row for every identifier whose fetch returned data, and
\* ends Done; the only way it ends Failed is that the final bulk write
\* itself raised, never the fetch error.
C1_PartialFailureIsolation ==
    (RunOver /\ \E i \in 1..Len(results) : IsRaised(results[i]))
        => /\ fetched = skus
           /\ Len(results) = Len(skus)
           /\ produced = RowsDue(Len(skus))
           /\ (runState = "Done" \/ (runState = "Failed" /\ DrainFailed))

C1_Witness ==
    /\ RunOver /\ runState = "Done"
    /\ Len(skus) = 3 /\ Len(results) = 3
    /\ IsDict(results[1]) /\ IsRaised(results[2]) /\ IsDict(results[3])
    /\ Len(produced) = 2

AllWritesOk == \A i \in 1..Len(calls) : calls[i].ok
CallsIn(ph) == {i \in 1..Len(calls) : calls[i].phase = ph}

\* C2: no append_rows call ever carries zero rows; and in a finished run
\* whose bulk writes all succeeded, with k rows built, there are exactly
\* k \div B calls during processing, each of exactly B rows, followed by
\* exactly one final call of k % B rows when k % B > 0 and none otherwise.
C2_BatchCallPattern ==
    /\ \A i \in 1..Len(calls) : Len(calls[i].rows) > 0
    /\ (RunOver /\ runState = "Done" /\ AllWritesOk)
        => LET k == Len(produced)
               B == BATCH_INSERT_SIZE
           IN /\ Cardinality(CallsIn("processing")) = k \div B
              /\ \A i \in CallsIn("processing") : Len(calls[i].rows) = B /\ i <= k \div B
              /\ Cardinality(CallsIn("draining")) = (IF k % B > 0 THEN 1 ELSE 0)
              /\ \A i \in CallsIn("draining") : Len(calls[i].rows) = k % B
              /\ Len(calls) = k \div B + (IF k % B > 0 THEN 1 ELSE 0)

C2_Witness ==
    /\ RunOver /\ runState = "Done" /\ AllWritesOk
    /\ Len(produced) = 3 /\ Len(calls) = 2
    /\ calls[1].phase = "processing" /\ calls[2].phase = "draining"

CallOver == pc = "handle"
IsFailure(reply) == reply.kind = "transport" \/ reply.status \notin 200..299
AllFailed == \A i \in 1..Len(replies) : IsFailure(replies[i])

\* C3: a call never issues more than 3 requests; a call whose every request
\* failed (transport error or non-2xx status) is over only after exactly 3
\* requests, and then it has raised MpStatsAPIError instead of returning.
C3_FetcherExhaustion ==
    /\ Len(replies) <= 3
    /\ (CallOver /\ AllFailed)
        => /\ Len(replies) = 3
           /\ item_data.tag = "raised" /\ item_data.err = "MpStatsAPIError"
    /\ (AllFailed /\ Len(replies) = 3) => CallOver

C3_Witness ==
    /\ CallOver /\ Len(replies) = 3
    /\ replies[1].kind = "transport" /\ replies[2].status = 500
    /\ replies[3].status = 429
    /\ item_data.tag = "raised"

Is429(reply) == reply.kind = "http" /\ reply.status = 429
IsOk(reply) == reply.kind = "http" /\ reply.status = 200
RateLimitedTwice ==
    /\ Len(replies) = 3
    /\ Is429(replies[1]) /\ Is429(replies[2])
    /\ IsOk(replies[3]) /\ replies[3].body # << >>

\* the resume delay the response asks for, in seconds
ResumeDelay(reply) ==
    CASE reply.retry_after = << >> -> 60
      [] reply.retry_after = << <<"1", "5">> >> -> 15

Backoffs == SelectSeq(sleeps, LAMBDA z : z.kind = "backoff")

\* C4: when the remote signals rate limiting on the first two requests and
\* sends data on the third, the call returns a record on the 3rd attempt;
\* before each retry it has slept the resume delay of the response (60
\* without the header) and then the backoff wait; and in every call the
\* backoff waits are non-decreasing and none is above 10.
C4_RateLimitRetry ==
    /\ \A i \in 1..Len(Backoffs) :
          /\ Backoffs[i].secs <= 10
          /\ i > 1 => Backoffs[i - 1].secs <= Backoffs[i].secs
    /\ RateLimitedTwice
        => /\ CallOver /\ attempt = 3 /\ IsDict(item_data)
           /\ Len(sleeps) = 4
           /\ sleeps[1] = [kind |-> "retry_after", secs |-> ResumeDelay(replies[1])]
           /\ sleeps[2].kind = "backoff"
           /\ sleeps[3] = [kind |-> "retry_after", secs |-> ResumeDelay(replies[2])]
           /\ sleeps[4].kind = "backoff"

C4_Witness ==
    /\ RateLimitedTwice /\ CallOver /\ IsDict(item_data)
    /\ replies[1].retry_after = << >>
    /\ replies[2].retry_after = << <<"1", "5">> >>
    /\ sleeps[1].secs = 60 /\ sleeps[3].secs = 15

IsEmptyOk(reply) == IsOk(reply) /\ reply.body = << >>
DictResults == {i \in 1..Len(results) : IsDict(results[i])}

\* C5: an empty body in a successful response ends the call at once with
\* None and no error (so when it is the first answer, the identifier cost
\* exactly one request), and the orchestrator builds no row for None: the
\* rows built in a run are as many as the fetches that returned a dict, and
\* the batch holds built rows only.
C5_FetcherAbsence ==
    /\ (replies # << >> /\ IsEmptyOk(replies[Len(replies)]))
        => /\ CallOver /\ item_data = None
           /\ IsEmptyOk(replies[1]) => Len(replies) = 1
    /\ Len(produced) = Cardinality(DictResults)
    /\ \A i \in 1..Len(batch_data) : \E j \in 1..Len(produced) : produced[j] = batch_data[i]

C5_Witness ==
    /\ CallOver /\ processed = 2
    /\ Len(replies) = 1 /\ IsEmptyOk(replies[1]) /\ item_data = None
    /\ results = <<None>>
    /\ produced = << >> /\ batch_data = << >> /\ calls = << >>

LastReply == replies[Len(replies)]
HasRecord(body, d) == \E i \in 1..Len(body) : body[i].date = d
RecordOn(body, d) == body[CHOOSE i \in 1..Len(body) : body[i].date = d]

\* the calendar day before each target date of FetchDates
PriorDate(d) ==
    CASE d = <<2024, 3, 1>> -> <<2024, 2, 29>>
      [] d = <<2024, 2, 29>> -> <<2024, 2, 28>>

Answered == CallOver /\ replies # << >> /\ IsOk(LastReply)

\* C6 as claimed: a successful response with no record for the target date
\* and none for the prior date makes the call return None.
C6_BothMissingAbsent ==
    (Answered /\ ~HasRecord(LastReply.body, date_str)
              /\ ~HasRecord(LastReply.body, PriorDate(date_str)))
        => item_data = None

\* sales of the record of date d, 0 without such a record or without the key
SalesOn(body, d) ==
    IF HasRecord(body, d) /\ RecordOn(body, d).sales # NoKey
    THEN RecordOn(body, d).sales.n
    ELSE 0

\* C7: for a response with a record for the target date and/or the prior
\* date, in any order and among records of other dates, the call returns a
\* record whose sales is target-date sales minus prior-date sales, a missing
\* side counting as 0.
C7_DeltaComputation ==
    (Answered /\ (HasRecord(LastReply.body, date_str)
                  \/ HasRecord(LastReply.body, PriorDate(date_str))))
        => /\ IsDict(item_data)
           /\ item_data.sales = Num(SalesOn(LastReply.body, date_str)
                                    - SalesOn(LastReply.body, PriorDate(date_str)))

C7_Witness ==
    /\ Answered /\ date_str = <<2024, 3, 1>>
    /\ Len(LastReply.body) = 2
    /\ LastReply.body[1].date = <<2024, 2, 29>> /\ LastReply.body[1].sales = Num(30)
    /\ LastReply.body[2].date = <<2024, 3, 1>> /\ LastReply.body[2].sales = Num(50)
    /\ item_data.sales = Num(20)

\* the field of the target-date record, "" without the record or the key
TargetField(body, d, key) ==
    IF HasRecord(body, d) /\ RecordOn(body, d)[key] # NoKey
    THEN RecordOn(body, d)[key]
    ELSE Empty

\* C8 as claimed: price and final_price of the returned record are those of
\* the target-date record, and empty without one.
C8_PriceFromTargetRecord ==
    (Answered /\ IsDict(item_data))
        => /\ item_data.price = TargetField(LastReply.body, date_str, "price")
           /\ item_data.final_price = TargetField(LastReply.body, date_str, "final_price")

IsDecimal(s) == s # << >> /\ \A i \in 1..Len(s) : s[i] \in DecimalDigits

\* s without its leading and trailing blanks
Trimmed(s) ==
    LET inked == {i \in 1..Len(s) : s[i] # " "} IN
    IF inked = {} THEN << >>
    ELSE SubSeq(s, CHOOSE i \in inked : \A j \in inked : i <= j,
                   CHOOSE i \in inked : \A j \in inked : i >= j)

KeptDecimal(list) ==
    SelectSeq([i \in 1..Len(list) |-> Trimmed(list[i])], IsDecimal)

\* C9 as claimed: validate_skus returns the trimmed entries that are
\* non-empty and all decimal digits, in input order, duplicates kept.
C9_ValidatorKeepsDecimal ==
    pc = "validated" => skus = KeptDecimal(raw_skus)

OutsideRun == {"return", "schedule", "pending", "sleep", "collect"}

\* C10: no error of a run escapes daily_collect: the program is never left
\* with an uncaught error, every run that was started has returned with
\* its end state recorded as Done or Failed, and a run in which the final
\* bulk write raised, or which never got from its non-empty identifier
\* list to the loop because the data sheet did not open, has ended Failed.
C10_RunErrorContainment ==
    /\ pc \notin {"crashed", "loop_error"}
    /\ pc \in OutsideRun
        => /\ Len(ended) = runs
           /\ \A i \in 1..Len(ended) : ended[i] \in {"Done", "Failed"}
    /\ (RunOver /\ DrainFailed) => runState = "Failed"
    /\ (RunOver /\ skus # << >> /\ fetched = << >>) => runState = "Failed"

\* a scheduled run has taken place and ended Done after a run that Failed
C10_Witness ==
    /\ RunOver /\ runs = 2
    /\ ended = <<"Failed", "Done">>
    /\ produced # << >>

BetweenIdentifiers == pc = "loop"

\* C11 as claimed: whatever the outcome of its step, every identifier is
\* followed by exactly one pacing sleep before the next one is started: the
\* 60-unit cooldown with the counter back at 0 when the counter has reached
\* the ceiling, the fixed delay otherwise.  So between two identifiers there
\* are as many pacing sleeps as identifiers processed, every
\* MAX_REQUESTS_PER_MINUTE-th of them is the cooldown, and the counter is
\* below the ceiling.
C11_PacingAfterEach ==
    BetweenIdentifiers
        => /\ Len(paces) = processed
           /\ \A i \in 1..Len(paces) :
                paces[i] = IF i % MAX_REQUESTS_PER_MINUTE = 0 THEN COOLDOWN
                           ELSE REQUEST_DELAY
           /\ request_count = processed % MAX_REQUESTS_PER_MINUTE

NoCooldownYet == \A i \in 1..Len(paces) : paces[i] # COOLDOWN

\* a lower bound of the remote requests issued since the run began: the
\* requests of the running call, MAX_RETRIES for every call that raised
\* (it used up its attempts) and one at least for every other finished call
RECURSIVE IssuedAtLeast(_)
IssuedAtLeast(k) ==
    IF k = 0 THEN attempt
    ELSE IssuedAtLeast(k - 1) + (IF IsRaised(results[k]) THEN MAX_RETRIES ELSE 1)

\* C12 as claimed: the request counter never exceeds the ceiling, and the
\* remote requests issued before the first cooldown of a run, retries
\* included, are never more than the ceiling (stated here for the requests
\* that are known to have been issued).
C12_QuotaCap ==
    /\ request_count <= MAX_REQUESTS_PER_MINUTE
    /\ NoCooldownYet => IssuedAtLeast(Len(results)) <= MAX_REQUESTS_PER_MINUTE

\* C13 as claimed: the batch never holds more than BATCH_INSERT_SIZE rows
\* and no append_rows call carries more, failed bulk writes or not.
C13_BatchBound ==
    /\ Len(batch_data) <= BATCH_INSERT_SIZE
    /\ \A i \in 1..Len(calls) : Len(calls[i].rows) <= BATCH_INSERT_SIZE

FailedInLoop(c) == c.phase = "processing" /\ ~c.ok
IsPrefix(p, q) == Len(p) <= Len(q) /\ SubSeq(q, 1, Len(p)) = p
RowsOf(c) == {c.rows[k] : k \in 1..Len(c.rows)}

RECURSIVE Written(_)
Written(k) ==
    IF k = 0 THEN << >>
    ELSE IF calls[k].ok THEN Written(k - 1) \o calls[k].rows ELSE Written(k - 1)

\* C15: at the end of every run that ends Done, failed bulk writes during
\* processing or not, the rows received by the sink over the successful
\* calls, in call order, are exactly the rows built for the identifiers
\* whose fetch returned data, each once and in identifier order; and the
\* batch holds no row the sink has not received: it is empty, or it is what
\* the final, successful call has just carried (line 179 does not reset the
\* local, which is gone when process_skus returns).
C15_DrainingCompleteness ==
    (RunOver /\ runState = "Done")
        => /\ Len(results) = Len(skus)
           /\ produced = RowsDue(Len(results))
           /\ Written(Len(calls)) = produced
           /\ \/ batch_data = << >>
              \/ /\ LastCall.phase = "draining" /\ LastCall.ok
                 /\ LastCall.rows = batch_data

C15_Witness ==
    /\ RunOver /\ runState = "Done"
    /\ Len(skus) = 3 /\ Len(produced) = 2
    /\ Len(calls) = 2 /\ FailedInLoop(calls[1])
    /\ calls[2].phase = "draining" /\ calls[2].ok
    /\ Written(2) = produced

InsideProcessSkus == pc \in {"open", "loop", "fetch", "handle", "drain"}

\* the step in which daily_collect leaves lines 189-197 without an error
Validated == pc = "init" /\ pc' # "init" /\ runState' # "Failed"

\* C16: when validation yields an empty list the run goes to Done in that
\* very step, with no identifier handed to the fetcher, no row, no
\* append_rows call and no pacing sleep then or before; and process_skus is
\* entered, and so the data sheet opened, only with at least one valid
\* identifier.
C16_EmptyListRun ==
    /\ [](InsideProcessSkus => skus # << >>)
    /\ []((RunOver /\ skus = << >>)
            => /\ fetched = << >> /\ results = << >> /\ produced = << >>
               /\ calls = << >> /\ paces = << >>
               /\ processed = 0 /\ batch_data = << >>)
    /\ [][(Validated /\ skus' = << >>)
            => /\ pc' = "return" /\ runState' = "Done"
               /\ ended' = Append(ended, "Done")
               /\ fetched' = << >> /\ calls' = << >>]_vars

C16_Witness ==
    /\ RunOver /\ runState = "Done" /\ skus = << >>
    /\ fetched = << >> /\ calls = << >>
    /\ runs = 2 /\ ended = <<"Done", "Done">>

\* C17 as claimed: a KeyboardInterrupt arriving at any moment after startup
\* is caught by the loop of __main__, which stops cleanly; it never escapes
\* uncaught.
C17_InterruptCaught == pc # "interrupted"

\* the rows a run for date d builds from SameColumn and SameData
RECURSIVE RowsOfSame(_, _)
RowsOfSame(list, d) ==
    IF list = << >> THEN << >>
    ELSE IF SameData(Head(list), d) = << >> THEN RowsOfSame(Tail(list), d)
    ELSE <<prepare_row_data(parse(SameData(Head(list), d), d), d, Head(list))>>
             \o RowsOfSame(Tail(list), d)

ExpectedRows(d) == RowsOfSame(validate_skus(skip_header(SameColumn)), d)

Count(row, rows) == Cardinality({i \in 1..Len(rows) : rows[i] = row})

\* the second run has ended, both runs Done, and the rows the first run left
\* are for the date of the second
SecondRunSameDate ==
    /\ RunOver /\ runs = 2 /\ ended = <<"Done", "Done">>
    /\ sheet.rows # << >> /\ sheet.rows[1][1] = date_str

\* C18: the worksheet only ever grows at the bottom: a step leaves the rows
\* it held in place; and after two Done runs for the same date over the same
\* identifier column and the same remote data, it holds the rows of that
\* date twice over: the rows of the first run followed by the same rows
\* from the second, every (date, identifier) row present exactly twice.
C18_NoIdempotency ==
    /\ [][IsPrefix(sheet.rows, sheet'.rows)]_vars
    /\ [](SecondRunSameDate
            => /\ produced = ExpectedRows(date_str)
               /\ sheet.rows = ExpectedRows(date_str) \o ExpectedRows(date_str)
               /\ \A i \in 1..Len(produced) : Count(produced[i], sheet.rows) = 2)

C18_Witness ==
    /\ SecondRunSameDate
    /\ Len(skus) = 4 /\ Len(produced) = 3
    /\ sheet.rows = produced \o produced
    /\ Len(calls) = 2 /\ FailedInLoop(calls[1])
    /\ calls[2].ok /\ calls[2].rows = produced

Running == runState \in {"Initializing", "Processing", "Draining"}
Ended == runState \in {"Done", "Failed"}

\* C19: whatever the identifier list, the remote and the sheets do, as long
\* as each call returns or raises, a run that has begun reaches Done or
\* Failed and daily_collect returns; no identifier takes more than
\* MAX_RETRIES requests, and every fetch, also one that fails or is rate
\* limited every time, is followed by the loop moving on.
C19_RunTermination ==
    /\ [](attempt <= MAX_RETRIES)
    /\ [](RunOver => Ended)
    /\ Running ~> Ended
    /\ (pc = "collect") ~> RunOver
    /\ (pc = "fetch") ~> BetweenIdentifiers

\* the run is over after an identifier whose three requests were all rate
\* limited and one whose three requests all failed
C19_Witness ==
    /\ RunOver /\ Ended
    /\ Len(results) = 3
    /\ IsRaised(results[1]) /\ IsRaised(results[2]) /\ IsDict(results[3])

====
